---- MODULE Spec2Model ----
(***************************************************************************)
(* Model of the contact directory of package annuaire                      *)
(* (src/annuaire/annuaire.go): the in-memory map of contacts under         *)
(* composite keys, its CRUD and search operations and its JSON             *)
(* export/import.                                                          *)
(*                                                                         *)
(* A Go string is modelled as a sequence of characters (a tuple of         *)
(* one-character TLA+ strings), so that the composite key built by         *)
(* fmt.Sprintf("%s_%s", name, phone) is a real concatenation and the JSON  *)
(* encoder's coercion to valid UTF-8 is a real conversion.                 *)
(***************************************************************************)
EXTENDS Integers, Sequences, FiniteSets, TLC

VARIABLES
    contacts,       \* d.contacts: the map from composite key to Contact
    files,          \* the JSON files on disk, by path
    ret,            \* the last call made and what it returned
    insertedPhone,  \* history: for each key, the Phone its contact was inserted with
    cli,            \* the command-line invocation in progress: flags, position, exit code
    web,            \* the web server: whether it runs, its last response, requests in flight
    entry           \* the exported method the last call entered the package by

vars == <<contacts, files, ret, insertedPhone, cli, web, entry>>

----------------------------------------------------------------------------
(* Bounds of the model *)

\* Largest number of contacts AddContact may bring the store to.
MaxContacts == 2

----------------------------------------------------------------------------
(* Strings *)

\* The empty Go string "".
Empty == <<>>

\* A byte that is not valid UTF-8 (such as 0xFF), which a Go string may hold.
BAD == "\\xFF"

\* The Unicode replacement rune U+FFFD.
REP == "\\uFFFD"

\* Arguments the callers pass: last names, first names, phone numbers.
NameInputs == {Empty, <<"a">>, <<"a", "_">>}
FirstInputs == {Empty, <<"x">>, <<BAD>>}
PhoneInputs == {Empty, <<"1">>, <<"_", "1">>}

\* Terms searched for: any kind of field value, and one that nothing holds.
TermInputs == NameInputs \cup FirstInputs \cup PhoneInputs \cup {<<"z">>}

\* Paths of JSON files.
Paths == {"contacts.json"}

----------------------------------------------------------------------------
(* Data model *)

\* type Contact struct { Name, First, Phone string }
Contact(name, first, phone) == [Name |-> name, First |-> first, Phone |-> phone]

\* The zero value Contact{}.
ZeroContact == Contact(Empty, Empty, Empty)

\* NewDirectory: make(map[string]Contact).
NewDirectory == [k \in {} |-> ZeroContact]

\* key := fmt.Sprintf("%s_%s", name, phone)
CompositeKey(name, phone) == name \o <<"_">> \o phone

\* len(d.contacts)
ContactCount(m) == Cardinality(DOMAIN m)

\* The error values the package returns; ErrNil is Go's nil error.
ErrNil == "nil"
ErrRequired == "all fields are required"
ErrDuplicate == "a contact with this name and phone already exists"
ErrNotFound == "contact not found"
ErrFileNotFound == "file not found"
ErrSyntax == "json: syntax error"
ErrIO == "i/o error"

\* The record of the last call: the method, its arguments and what it returned.
\* A returned slice is list, with isNil telling the nil slice from an empty
\* one; a returned int is count.
Ret(op, name, first, phone, file, err, found, contact) ==
    [op |-> op, name |-> name, first |-> first, phone |-> phone, file |-> file,
     err |-> err, found |-> found, contact |-> contact,
     list |-> <<>>, isNil |-> FALSE, count |-> 0]

----------------------------------------------------------------------------
(* Files *)

\* A path with no file.
Missing == [exists |-> FALSE, valid |-> FALSE, data |-> <<>>]

\* A file whose bytes are not a JSON array of contact objects.
Malformed == [exists |-> TRUE, valid |-> FALSE, data |-> <<>>]

\* A file holding a JSON array; data are the string literals as written.
JSONFile(arr) == [exists |-> TRUE, valid |-> TRUE, data |-> arr]

\* encoding/json coerces strings to valid UTF-8, replacing invalid bytes
\* by the replacement rune, when encoding and when decoding.
CoerceUTF8(s) == [i \in 1..Len(s) |-> IF s[i] = BAD THEN REP ELSE s[i]]

CoerceContact(c) ==
    Contact(CoerceUTF8(c.Name), CoerceUTF8(c.First), CoerceUTF8(c.Phone))

\* json.MarshalIndent(contacts, "", "  ")
MarshalIndent(arr) == [i \in 1..Len(arr) |-> CoerceContact(arr[i])]

\* json.Unmarshal(data, &contacts) of a well-formed file
Unmarshal(data) == [i \in 1..Len(data) |-> CoerceContact(data[i])]

\* The orders in which a range over the map may visit its keys.
RangeOrders(m) ==
    {ks \in [1..Cardinality(DOMAIN m) -> DOMAIN m] :
        \A i, j \in 1..Cardinality(DOMAIN m) : i # j => ks[i] # ks[j]}

\* The slices the loop "for _, contact := range d.contacts { append }" builds.
MapToSlices(m) ==
    {[i \in 1..Len(ks) |-> m[ks[i]]] : ks \in RangeOrders(m)}

\* The loop of ImportFromJSON: d.contacts[key] = contact for each entry in
\* file order, from entry i on.
RECURSIVE RebuildFrom(_, _, _)
RebuildFrom(arr, i, m) ==
    IF i > Len(arr) THEN m
    ELSE LET key == CompositeKey(arr[i].Name, arr[i].Phone)
             rest == [k \in DOMAIN m \ {key} |-> m[k]]
         IN  RebuildFrom(arr, i + 1, rest @@ (key :> arr[i]))

\* d.contacts = make(map[string]Contact) followed by the loop.
Rebuild(arr) == RebuildFrom(arr, 1, NewDirectory)

\* Files found on disk when the program starts.
InitialFiles ==
    { Missing,
      Malformed,
      JSONFile(<<>>),
      JSONFile(<<Contact(<<"a">>, <<"x">>, Empty)>>),
      JSONFile(<<Contact(<<"a">>, <<"x">>, <<"1">>),
                 Contact(<<"a">>, <<BAD>>, <<"1">>)>>) }

\* The contact values stored in m.
Stored(m) == {m[k] : k \in DOMAIN m}

\* The collection of contact values stored in m, with multiplicity.
ContactBag(m) == [c \in Stored(m) |-> Cardinality({k \in DOMAIN m : m[k] = c})]

\* No command-line invocation: the Directory is used as a package.  Two
\* fields are history kept from one invocation to the next: kept holds the
\* collection that was in memory at the last save of an add, delete, update or
\* import that succeeded (none before the first), ioFailed tells whether a
\* file operation has failed so far, after which kept is no longer recorded.
NoCLI ==
    [pc |-> "idle", action |-> "", name |-> Empty, first |-> Empty, phone |-> Empty,
     file |-> "", exit |-> -1, dirErr |-> FALSE, opErr |-> "", saveErr |-> "",
     warned |-> FALSE, kept |-> {}, ioFailed |-> FALSE]

\* The two goroutines of net/http that may serve requests at the same time.
Requests == {1, 2}

\* A goroutine that serves no request.
IdleRequest ==
    [pc |-> "idle", name |-> Empty, first |-> Empty, phone |-> Empty, type |-> "",
     raced |-> FALSE]

\* No web server: "var dir *annuaire.Directory" is not assigned and nothing
\* was answered.
NoWeb ==
    [started |-> FALSE, path |-> "", method |-> "", status |-> 0, type |-> "",
     reqs |-> [i \in Requests |-> IdleRequest], crashed |-> FALSE]

----------------------------------------------------------------------------
(* Operations of Directory *)

Init ==
    /\ contacts = NewDirectory
    /\ files \in [Paths -> InitialFiles]
    /\ ret = Ret("NewDirectory", Empty, Empty, Empty, "", ErrNil, FALSE, ZeroContact)
    /\ insertedPhone = [k \in {} |-> Empty]
    /\ cli = NoCLI
    /\ web = NoWeb
    /\ entry = ""

\* AddContact looking the composite key up before it validates its arguments.
AddContactKeyFirst(name, first, phone) ==
    LET key == CompositeKey(name, phone)
        r(err) == Ret("AddContact", name, first, phone, "", err, FALSE, ZeroContact)
    IN  /\ IF key \in DOMAIN contacts
           THEN /\ ret' = r(ErrDuplicate)
                /\ UNCHANGED <<contacts, insertedPhone>>
           ELSE IF name = Empty \/ first = Empty \/ phone = Empty
           THEN /\ ret' = r(ErrRequired)
                /\ UNCHANGED <<contacts, insertedPhone>>
           ELSE /\ ContactCount(contacts) < MaxContacts
                /\ contacts' = contacts @@ (key :> Contact(name, first, phone))
                /\ insertedPhone' = insertedPhone @@ (key :> phone)
                /\ ret' = r(ErrNil)
        /\ UNCHANGED files

\* func (d *Directory) AddContact(name, first, phone string) error
AddContact(name, first, phone) ==
    LET key == CompositeKey(name, phone)
        r(err) == Ret("AddContact", name, first, phone, "", err, FALSE, ZeroContact)
    IN  /\ IF name = Empty \/ first = Empty \/ phone = Empty
           THEN /\ ret' = r(ErrRequired)
                /\ UNCHANGED <<contacts, insertedPhone>>
           ELSE IF key \in DOMAIN contacts
           THEN /\ ret' = r(ErrDuplicate)
                /\ UNCHANGED <<contacts, insertedPhone>>
           ELSE /\ ContactCount(contacts) < MaxContacts
                /\ contacts' = contacts @@ (key :> Contact(name, first, phone))
                /\ insertedPhone' = insertedPhone @@ (key :> phone)
                /\ ret' = r(ErrNil)
        /\ UNCHANGED files

\* The predicate without its comparison of the first name.
MatchesNameOrPhone(contact, searchTerm) ==
    \/ contact.Name = searchTerm
    \/ contact.Phone = searchTerm

\* The predicate of SearchContact and FilterContacts.
Matches(contact, searchTerm) ==
    \/ contact.Name = searchTerm
    \/ contact.First = searchTerm
    \/ contact.Phone = searchTerm

\* func (d *Directory) SearchContact(searchTerm string) (Contact, bool)
SearchContact(searchTerm) ==
    LET hits == {k \in DOMAIN contacts : Matches(contacts[k], searchTerm)}
        r(found, c) == Ret("SearchContact", searchTerm, Empty, Empty, "", ErrNil, found, c)
    IN  /\ IF hits # {}
           THEN \E k \in hits : ret' = r(TRUE, contacts[k])
           ELSE ret' = r(FALSE, ZeroContact)
        /\ UNCHANGED <<contacts, files, insertedPhone>>

\* The slices FilterContacts may build: "var matches []Contact", then one
\* append per matching contact in the order the range visits the map.
FilterSlices(m, searchTerm) ==
    LET hits == {k \in DOMAIN m : Matches(m[k], searchTerm)}
        sub == [k \in hits |-> m[k]]
    IN  MapToSlices(sub)

\* FilterContacts with SearchContact's return at the first match.
FilterContactsFirstOnly(searchTerm) ==
    /\ \E matches \in FilterSlices(contacts, searchTerm) :
           ret' = [Ret("FilterContacts", searchTerm, Empty, Empty, "", ErrNil, FALSE, ZeroContact)
                      EXCEPT !.list = SubSeq(matches, 1, IF Len(matches) = 0 THEN 0 ELSE 1),
                             !.isNil = (Len(matches) = 0)]
    /\ UNCHANGED <<contacts, files, insertedPhone>>

\* FilterContacts appending every contact, its test of the term left out.
FilterContactsNoTest(searchTerm) ==
    /\ \E matches \in MapToSlices(contacts) :
           ret' = [Ret("FilterContacts", searchTerm, Empty, Empty, "", ErrNil, FALSE, ZeroContact)
                      EXCEPT !.list = matches,
                             !.isNil = (Len(matches) = 0)]
    /\ UNCHANGED <<contacts, files, insertedPhone>>

\* func (d *Directory) FilterContacts(searchTerm string) []Contact
FilterContacts(searchTerm) ==
    /\ \E matches \in FilterSlices(contacts, searchTerm) :
           ret' = [Ret("FilterContacts", searchTerm, Empty, Empty, "", ErrNil, FALSE, ZeroContact)
                      EXCEPT !.list = matches,
                             !.isNil = (Len(matches) = 0)]
    /\ UNCHANGED <<contacts, files, insertedPhone>>

\* ListContacts allocating its slice with a length, not only a capacity.
ListContactsMakeLen ==
    /\ \E all \in MapToSlices(contacts) :
           ret' = [Ret("ListContacts", Empty, Empty, Empty, "", ErrNil, FALSE, ZeroContact)
                      EXCEPT !.list = [i \in 1..Len(all) |-> ZeroContact] \o all,
                             !.isNil = FALSE]
    /\ UNCHANGED <<contacts, files, insertedPhone>>

\* func (d *Directory) ListContacts() []Contact
ListContacts ==
    /\ \E all \in MapToSlices(contacts) :
           ret' = [Ret("ListContacts", Empty, Empty, Empty, "", ErrNil, FALSE, ZeroContact)
                      EXCEPT !.list = all, !.isNil = FALSE]
    /\ UNCHANGED <<contacts, files, insertedPhone>>

\* func (d *Directory) ContactCount() int, called
CallContactCount ==
    /\ ret' = [Ret("ContactCount", Empty, Empty, Empty, "", ErrNil, FALSE, ZeroContact)
                  EXCEPT !.count = ContactCount(contacts)]
    /\ UNCHANGED <<contacts, files, insertedPhone>>

\* DeleteContact without the break that ends its loop at the first match.
DeleteContactNoBreak(name) ==
    LET hits == {k \in DOMAIN contacts : contacts[k].Name = name}
        r(err) == Ret("DeleteContact", name, Empty, Empty, "", err, FALSE, ZeroContact)
    IN  /\ IF hits # {}
           THEN /\ contacts' = [k \in DOMAIN contacts \ hits |-> contacts[k]]
                /\ insertedPhone' = [k \in DOMAIN contacts \ hits |-> insertedPhone[k]]
                /\ ret' = r(ErrNil)
           ELSE /\ ret' = r(ErrNotFound)
                /\ UNCHANGED <<contacts, insertedPhone>>
        /\ UNCHANGED files

\* DeleteContact without the test of found after its loop.
DeleteContactNoCheck(name) ==
    LET hits == {k \in DOMAIN contacts : contacts[k].Name = name}
        r(err) == Ret("DeleteContact", name, Empty, Empty, "", err, FALSE, ZeroContact)
    IN  /\ IF hits # {}
           THEN \E key \in hits :
                    /\ contacts' = [k \in DOMAIN contacts \ {key} |-> contacts[k]]
                    /\ insertedPhone' = [k \in DOMAIN contacts \ {key} |-> insertedPhone[k]]
                    /\ ret' = r(ErrNil)
           ELSE /\ ret' = r(ErrNil)
                /\ UNCHANGED <<contacts, insertedPhone>>
        /\ UNCHANGED files

\* func (d *Directory) DeleteContact(name string) error
DeleteContact(name) ==
    LET hits == {k \in DOMAIN contacts : contacts[k].Name = name}
        r(err) == Ret("DeleteContact", name, Empty, Empty, "", err, FALSE, ZeroContact)
    IN  /\ IF hits # {}
           THEN \E key \in hits :
                    /\ contacts' = [k \in DOMAIN contacts \ {key} |-> contacts[k]]
                    /\ insertedPhone' = [k \in DOMAIN contacts \ {key} |-> insertedPhone[k]]
                    /\ ret' = r(ErrNil)
           ELSE /\ ret' = r(ErrNotFound)
                /\ UNCHANGED <<contacts, insertedPhone>>
        /\ UNCHANGED files

\* The loop body assigning the new first name without testing it for "".
UpdatedAlwaysFirst(contact, newFirst, newPhone) ==
    Contact(contact.Name,
            newFirst,
            IF newPhone # Empty THEN newPhone ELSE contact.Phone)

\* The body of UpdateContact's loop for the contact found.
Updated(contact, newFirst, newPhone) ==
    Contact(contact.Name,
            IF newFirst # Empty THEN newFirst ELSE contact.First,
            IF newPhone # Empty THEN newPhone ELSE contact.Phone)

\* UpdateContact moving the contact to the composite key of its new phone.
UpdateContactRekey(name, newFirst, newPhone) ==
    LET hits == {k \in DOMAIN contacts : contacts[k].Name = name}
        r(err) == Ret("UpdateContact", name, newFirst, newPhone, "", err, FALSE, ZeroContact)
    IN  /\ IF hits # {}
           THEN \E key \in hits :
                    LET c == Contact(contacts[key].Name,
                                     IF newFirst # Empty THEN newFirst ELSE contacts[key].First,
                                     IF newPhone # Empty THEN newPhone ELSE contacts[key].Phone)
                        newKey == CompositeKey(c.Name, c.Phone)
                        rest == [k \in DOMAIN contacts \ {key, newKey} |-> contacts[k]]
                    IN  /\ contacts' = rest @@ (newKey :> c)
                        /\ ret' = r(ErrNil)
           ELSE /\ ret' = r(ErrNotFound)
                /\ UNCHANGED contacts
        /\ UNCHANGED <<files, insertedPhone>>

\* func (d *Directory) UpdateContact(name, newFirst, newPhone string) error
UpdateContact(name, newFirst, newPhone) ==
    LET hits == {k \in DOMAIN contacts : contacts[k].Name = name}
        r(err) == Ret("UpdateContact", name, newFirst, newPhone, "", err, FALSE, ZeroContact)
    IN  /\ IF hits # {}
           THEN \E key \in hits :
                    /\ contacts' = [contacts EXCEPT
                                      ![key] = Updated(contacts[key], newFirst, newPhone)]
                    /\ ret' = r(ErrNil)
           ELSE /\ ret' = r(ErrNotFound)
                /\ UNCHANGED contacts
        /\ UNCHANGED <<files, insertedPhone>>

\* ExportToJSON emptying the map once the file is written.
ExportToJSONClearing(filename) ==
    LET r(err) == Ret("ExportToJSON", Empty, Empty, Empty, filename, err, FALSE, ZeroContact)
    IN  \/ /\ ret' = r(ErrIO)
           /\ UNCHANGED <<files, contacts, insertedPhone>>
        \/ /\ ret' = r(ErrIO)
           /\ files' = [files EXCEPT ![filename] = Malformed]
           /\ UNCHANGED <<contacts, insertedPhone>>
        \/ \E arr \in MapToSlices(contacts) :
               /\ files' = [files EXCEPT ![filename] = JSONFile(MarshalIndent(arr))]
               /\ ret' = r(ErrNil)
               /\ contacts' = NewDirectory
               /\ insertedPhone' = [k \in {} |-> Empty]

\* func (d *Directory) ExportToJSON(filename string) error
ExportToJSON(filename) ==
    LET r(err) == Ret("ExportToJSON", Empty, Empty, Empty, filename, err, FALSE, ZeroContact)
    IN  /\ \/ \* os.MkdirAll fails, or os.WriteFile cannot open the file
              /\ ret' = r(ErrIO)
              /\ UNCHANGED files
           \/ \* os.WriteFile fails after it created or truncated the file
              /\ ret' = r(ErrIO)
              /\ files' = [files EXCEPT ![filename] = Malformed]
           \/ \* the file is written
              \E arr \in MapToSlices(contacts) :
                  /\ files' = [files EXCEPT ![filename] = JSONFile(MarshalIndent(arr))]
                  /\ ret' = r(ErrNil)
        /\ UNCHANGED <<contacts, insertedPhone>>

\* The body of ImportFromJSON, reached by a call of the method op.
ImportFromJSONCalledAs(op, filename) ==
    LET r(err) == Ret(op, Empty, Empty, Empty, filename, err, FALSE, ZeroContact)
    IN  /\ IF ~files[filename].exists
           THEN /\ ret' = r(ErrFileNotFound)
                /\ UNCHANGED <<contacts, insertedPhone>>
           ELSE \/ \* os.ReadFile fails
                   /\ ret' = r(ErrIO)
                   /\ UNCHANGED <<contacts, insertedPhone>>
                \/ /\ ~files[filename].valid
                   /\ ret' = r(ErrSyntax)
                   /\ UNCHANGED <<contacts, insertedPhone>>
                \/ /\ files[filename].valid
                   /\ contacts' = Rebuild(Unmarshal(files[filename].data))
                   /\ insertedPhone' = [k \in DOMAIN contacts' |-> contacts'[k].Phone]
                   /\ ret' = r(ErrNil)
        /\ UNCHANGED files

\* ImportFromJSON adding to the map, its "d.contacts = make(...)" left out.
ImportFromJSONAdditive(filename) ==
    LET r(err) == Ret("ImportFromJSON", Empty, Empty, Empty, filename, err, FALSE, ZeroContact)
    IN  /\ IF ~files[filename].exists
           THEN /\ ret' = r(ErrFileNotFound)
                /\ UNCHANGED <<contacts, insertedPhone>>
           ELSE \/ /\ ret' = r(ErrIO)
                   /\ UNCHANGED <<contacts, insertedPhone>>
                \/ /\ ~files[filename].valid
                   /\ ret' = r(ErrSyntax)
                   /\ UNCHANGED <<contacts, insertedPhone>>
                \/ /\ files[filename].valid
                   /\ contacts' = RebuildFrom(Unmarshal(files[filename].data), 1, contacts)
                   /\ insertedPhone' = [k \in DOMAIN contacts' |->
                          IF k \in DOMAIN insertedPhone /\ contacts'[k] = contacts[k]
                          THEN insertedPhone[k] ELSE contacts'[k].Phone]
                   /\ ret' = r(ErrNil)
        /\ UNCHANGED files

\* ImportFromJSON clearing the map before it reads and parses the file.
ImportFromJSONClearFirst(filename) ==
    LET r(err) == Ret("ImportFromJSON", Empty, Empty, Empty, filename, err, FALSE, ZeroContact)
    IN  /\ IF ~files[filename].exists
           THEN /\ ret' = r(ErrFileNotFound)
                /\ UNCHANGED <<contacts, insertedPhone>>
           ELSE \/ /\ ret' = r(ErrIO)
                   /\ contacts' = NewDirectory
                   /\ insertedPhone' = [k \in {} |-> Empty]
                \/ /\ ~files[filename].valid
                   /\ ret' = r(ErrSyntax)
                   /\ contacts' = NewDirectory
                   /\ insertedPhone' = [k \in {} |-> Empty]
                \/ /\ files[filename].valid
                   /\ contacts' = Rebuild(Unmarshal(files[filename].data))
                   /\ insertedPhone' = [k \in DOMAIN contacts' |-> contacts'[k].Phone]
                   /\ ret' = r(ErrNil)
        /\ UNCHANGED files

\* ImportFromJSON skipping an entry whose composite key is already in the map.
ImportFromJSONFirstWins(filename) ==
    LET r(err) == Ret("ImportFromJSON", Empty, Empty, Empty, filename, err, FALSE, ZeroContact)
        arr == Unmarshal(files[filename].data)
        reversed == [i \in 1..Len(arr) |-> arr[Len(arr) + 1 - i]]
    IN  /\ IF ~files[filename].exists
           THEN /\ ret' = r(ErrFileNotFound)
                /\ UNCHANGED <<contacts, insertedPhone>>
           ELSE \/ /\ ret' = r(ErrIO)
                   /\ UNCHANGED <<contacts, insertedPhone>>
                \/ /\ ~files[filename].valid
                   /\ ret' = r(ErrSyntax)
                   /\ UNCHANGED <<contacts, insertedPhone>>
                \/ /\ files[filename].valid
                   /\ contacts' = Rebuild(reversed)
                   /\ insertedPhone' = [k \in DOMAIN contacts' |-> contacts'[k].Phone]
                   /\ ret' = r(ErrNil)
        /\ UNCHANGED files

\* func (d *Directory) ImportFromJSON(filename string) error
ImportFromJSON(filename) == ImportFromJSONCalledAs("ImportFromJSON", filename)

\* LoadFromJSON without its legacy test for a missing file.
LoadFromJSONStrict(nomFichier) == ImportFromJSONCalledAs("LoadFromJSON", nomFichier)

\* func (d *Directory) LoadFromJSON(nomFichier string) error
LoadFromJSON(nomFichier) ==
    IF ~files[nomFichier].exists
    THEN /\ ret' = Ret("LoadFromJSON", Empty, Empty, Empty, nomFichier, ErrNil, FALSE, ZeroContact)
         /\ UNCHANGED <<contacts, files, insertedPhone>>
    ELSE ImportFromJSONCalledAs("LoadFromJSON", nomFichier)

AddStep == \E n \in NameInputs, f \in FirstInputs, p \in PhoneInputs : AddContact(n, f, p)
SearchStep == \E t \in TermInputs : SearchContact(t)
DeleteStep == \E n \in NameInputs : DeleteContact(n)
UpdateStep == \E n \in NameInputs, f \in FirstInputs, p \in PhoneInputs : UpdateContact(n, f, p)
ExportStep == \E path \in Paths : ExportToJSON(path)
ImportStep == \E path \in Paths : ImportFromJSON(path)
FilterStep == \E t \in TermInputs : FilterContacts(t)
ListStep == ListContacts
CountStep == CallContactCount
LoadStep == \E path \in Paths : LoadFromJSON(path)

\* The directory in memory: every operation on the map, the files on disk
\* being those the program found when it started.
Next ==
    /\ \/ AddStep
       \/ SearchStep
       \/ DeleteStep
       \/ UpdateStep
       \/ ImportStep
       \/ FilterStep
       \/ ListStep
       \/ CountStep
       \/ LoadStep
    /\ UNCHANGED <<cli, web, entry>>

Spec == Init /\ [][Next]_vars

\* A Directory built by AddContact calls only.
AddNext == AddStep /\ UNCHANGED <<cli, web, entry>>

SpecAdd == Init /\ [][AddNext]_vars

\* A Directory built by AddContact, UpdateContact and DeleteContact calls and
\* exported to disk.
ExportNameInputs == {<<"a">>}
ExportAddStep ==
    \E n \in ExportNameInputs, f \in FirstInputs \ {Empty}, p \in PhoneInputs \ {Empty} :
        AddContact(n, f, p)
ExportDeleteStep == \E n \in ExportNameInputs : DeleteContact(n)
ExportUpdateStep ==
    \E n \in ExportNameInputs, f \in FirstInputs, p \in PhoneInputs : UpdateContact(n, f, p)

ExportNext ==
    /\ \/ ExportAddStep
       \/ ExportDeleteStep
       \/ ExportUpdateStep
       \/ ExportStep
    /\ UNCHANGED <<cli, web, entry>>

SpecExport == Init /\ [][ExportNext]_vars

\* The same Directory, read by every method that only reads.
ReadTermInputs == {<<"a">>, <<"x">>, <<"z">>}
ReadNext ==
    /\ \/ ExportAddStep
       \/ ExportDeleteStep
       \/ ExportUpdateStep
       \/ \E t \in ReadTermInputs : SearchContact(t)
       \/ \E t \in ReadTermInputs : FilterContacts(t)
       \/ ListStep
       \/ CountStep
       \/ ExportStep
    /\ UNCHANGED <<cli, web, entry>>

SpecRead == Init /\ [][ReadNext]_vars

----------------------------------------------------------------------------
(* The command line of src/main.go.  One invocation is one process: it parses
   its flags, loads the default data file into a new Directory, runs the
   handler of its action and exits.  The calls of an invocation follow one
   another in program order, cli.pc telling which comes next, and nothing
   else runs in between; a new invocation starts when the last has exited. *)

\* const defaultDataFile = "data/contacts.json"
defaultDataFile == "data/contacts.json"

\* The files the command line may touch: the default one and one more.
CLIPaths == {defaultDataFile, "backup.json"}

\* Values of the -action flag: the implemented ones, none, and an unknown one.
CLIActions == {"add", "list", "search", "delete", "update", "export", "import", "", "purge"}

\* Values of the -name, -first, -phone and -file flags ("" when not given).
CLINameInputs == {Empty, <<"a">>}
CLIFirstInputs == {Empty, <<"x">>, <<BAD>>}
CLIPhoneInputs == {Empty, <<"1">>, <<"_", "1">>}
CLIFileInputs == {""} \cup CLIPaths

\* The flags an action reads; the others are left at their default.
CLIFlags ==
    {f \in [action : CLIActions, name : CLINameInputs, first : CLIFirstInputs,
            phone : CLIPhoneInputs, file : CLIFileInputs] :
        /\ f.action \notin {"add", "search", "delete", "update"} => f.name = Empty
        /\ f.action \notin {"add", "update"} => f.first = Empty /\ f.phone = Empty
        /\ f.action \notin {"export", "import"} => f.file = ""}

CLIInit ==
    /\ contacts = NewDirectory
    /\ files \in [CLIPaths -> {Missing, Malformed}]
    /\ ret = Ret("NewDirectory", Empty, Empty, Empty, "", ErrNil, FALSE, ZeroContact)
    /\ insertedPhone = [k \in {} |-> Empty]
    /\ cli = NoCLI
    /\ web = NoWeb
    /\ entry = ""

\* os.IsNotExist(err): true of the errors of the os package that report a
\* missing file, which an error made by errors.New is not.
OsIsNotExist(err) == err = "no such file or directory"

\* os.Exit(code), or the return from main with code 0.
Exit(code) == cli' = [cli EXCEPT !.pc = "done", !.exit = code]

\* main up to the creation of the Directory: flag.Parse, os.MkdirAll of the
\* data directory, annuaire.NewDirectory.
MainStart ==
    /\ cli.pc \in {"idle", "done"}
    /\ \E f \in CLIFlags :
          LET c == [NoCLI EXCEPT !.action = f.action, !.name = f.name, !.first = f.first,
                                 !.phone = f.phone, !.file = f.file,
                                 !.kept = cli.kept, !.ioFailed = cli.ioFailed]
          IN  \/ cli' = [c EXCEPT !.pc = "load"]
              \/ \* os.MkdirAll fails
                 cli' = [c EXCEPT !.pc = "done", !.exit = 1, !.dirErr = TRUE,
                                  !.ioFailed = TRUE, !.kept = {}]
    /\ contacts' = NewDirectory
    /\ insertedPhone' = [k \in {} |-> Empty]
    /\ ret' = Ret("NewDirectory", Empty, Empty, Empty, "", ErrNil, FALSE, ZeroContact)
    /\ UNCHANGED files

\* main: dir.ImportFromJSON(defaultDataFile), with its warning.
MainLoad ==
    /\ cli.pc = "load"
    /\ ImportFromJSON(defaultDataFile)
    /\ cli' = [cli EXCEPT !.pc = "dispatch",
                          !.warned = (ret'.err # ErrNil /\ ~OsIsNotExist(ret'.err)),
                          !.ioFailed = @ \/ ret'.err = ErrIO,
                          !.kept = IF ret'.err = ErrIO THEN {} ELSE @]

\* The end of the handlers that persist: dir.ExportToJSON(defaultDataFile),
\* a failure of which is only a warning.
SaveToDefault ==
    /\ cli.pc = "save"
    /\ ExportToJSON(defaultDataFile)
    /\ cli' = [cli EXCEPT !.pc = "done", !.exit = 0, !.saveErr = ret'.err,
                          !.kept = IF cli.ioFailed \/ ret'.err = ErrIO THEN {}
                                   ELSE {ContactBag(contacts)},
                          !.ioFailed = @ \/ ret'.err = ErrIO]

\* A handler that goes on after its Directory call whatever it returned.
AfterCallIgnoringError(next) ==
    cli' = IF next = "save"
           THEN [cli EXCEPT !.pc = "save", !.opErr = ret'.err,
                            !.ioFailed = @ \/ ret'.err = ErrIO,
                            !.kept = IF ret'.err = ErrIO THEN {} ELSE @]
           ELSE [cli EXCEPT !.pc = "done", !.exit = 0, !.opErr = ret'.err,
                            !.ioFailed = @ \/ ret'.err = ErrIO,
                            !.kept = IF ret'.err = ErrIO THEN {} ELSE @]

\* What a handler does once its Directory call returned: exit with code 1 on
\* an error, else go on to persist or return.
AfterCall(next) ==
    cli' = IF ret'.err # ErrNil
           THEN [cli EXCEPT !.pc = "done", !.exit = 1, !.opErr = ret'.err,
                            !.ioFailed = @ \/ ret'.err = ErrIO,
                            !.kept = IF ret'.err = ErrIO THEN {} ELSE @]
           ELSE IF next = "save"
           THEN [cli EXCEPT !.pc = "save", !.opErr = ErrNil]
           ELSE [cli EXCEPT !.pc = "done", !.exit = 0, !.opErr = ErrNil]

\* func handleAddAction(dir, name, first, phone), up to the save
handleAddAction ==
    /\ cli.pc = "dispatch" /\ cli.action = "add"
    /\ IF cli.name = Empty \/ cli.first = Empty \/ cli.phone = Empty
       THEN Exit(1) /\ UNCHANGED <<contacts, files, ret, insertedPhone>>
       ELSE AddContact(cli.name, cli.first, cli.phone) /\ AfterCall("save")

\* func handleListAction(dir)
handleListAction ==
    /\ cli.pc = "dispatch" /\ cli.action = "list"
    /\ ListContacts
    /\ AfterCall("return")

\* func handleSearchAction(dir, searchTerm)
handleSearchAction ==
    /\ cli.pc = "dispatch" /\ cli.action = "search"
    /\ IF cli.name = Empty
       THEN Exit(1) /\ UNCHANGED <<contacts, files, ret, insertedPhone>>
       ELSE SearchContact(cli.name) /\ AfterCall("return")

\* handleDeleteAction going on to the save when DeleteContact failed.
handleDeleteActionSaving ==
    /\ cli.pc = "dispatch" /\ cli.action = "delete"
    /\ IF cli.name = Empty
       THEN Exit(1) /\ UNCHANGED <<contacts, files, ret, insertedPhone>>
       ELSE DeleteContact(cli.name) /\ AfterCallIgnoringError("save")

\* func handleDeleteAction(dir, name), up to the save
handleDeleteAction ==
    /\ cli.pc = "dispatch" /\ cli.action = "delete"
    /\ IF cli.name = Empty
       THEN Exit(1) /\ UNCHANGED <<contacts, files, ret, insertedPhone>>
       ELSE DeleteContact(cli.name) /\ AfterCall("save")

\* func handleUpdateAction(dir, name, first, phone), up to the save
handleUpdateAction ==
    /\ cli.pc = "dispatch" /\ cli.action = "update"
    /\ IF cli.name = Empty
       THEN Exit(1) /\ UNCHANGED <<contacts, files, ret, insertedPhone>>
       ELSE UpdateContact(cli.name, cli.first, cli.phone) /\ AfterCall("save")

\* func handleExportAction(dir, file)
handleExportAction ==
    /\ cli.pc = "dispatch" /\ cli.action = "export"
    /\ IF cli.file = ""
       THEN Exit(1) /\ UNCHANGED <<contacts, files, ret, insertedPhone>>
       ELSE ExportToJSON(cli.file) /\ AfterCall("return")

\* func handleImportAction(dir, file), up to the save
handleImportAction ==
    /\ cli.pc = "dispatch" /\ cli.action = "import"
    /\ IF cli.file = ""
       THEN Exit(1) /\ UNCHANGED <<contacts, files, ret, insertedPhone>>
       ELSE ImportFromJSON(cli.file) /\ AfterCall("save")

\* main: case "": printUsage()
MainUsage ==
    /\ cli.pc = "dispatch" /\ cli.action = ""
    /\ Exit(0)
    /\ UNCHANGED <<contacts, files, ret, insertedPhone>>

\* main: default: "Action not implemented", os.Exit(1)
MainUnknownAction ==
    /\ cli.pc = "dispatch"
    /\ cli.action \notin {"add", "list", "search", "delete", "update", "export", "import", ""}
    /\ Exit(1)
    /\ UNCHANGED <<contacts, files, ret, insertedPhone>>

CLINext ==
    /\ \/ MainStart
       \/ MainLoad
       \/ handleAddAction
       \/ handleListAction
       \/ handleSearchAction
       \/ handleDeleteAction
       \/ handleUpdateAction
       \/ handleExportAction
       \/ handleImportAction
       \/ SaveToDefault
       \/ MainUsage
       \/ MainUnknownAction
    /\ UNCHANGED <<web, entry>>

SpecCLI == CLIInit /\ [][CLINext]_vars

----------------------------------------------------------------------------
(* The web server of package server.  Its handlers share the one Directory
   "dir"; here each request is served from its first statement to its last
   before the next one starts. *)

\* The file a default export is written to, and the file an upload is copied to.
exportFile == "temp/contacts_export.json"
importFile == "temp/import_upload.json"

\* The files the web server may touch, and the default data file of the
\* command line, which it has no code for.
WebPaths == {defaultDataFile, exportFile, importFile}

\* Methods of the requests, and the values of their form fields.
WebMethods == {"GET", "POST"}
WebNameInputs == {Empty, <<"a">>}
WebFirstInputs == {Empty, <<"x">>}
WebPhoneInputs == {Empty, <<"1">>, <<"2">>}

\* The contents of the files a browser uploads.
Uploads ==
    { Malformed,
      JSONFile(<<>>),
      JSONFile(<<Contact(<<"b">>, <<"x">>, <<"1">>)>>) }

\* What the data directory may hold when the server starts.
WebInit ==
    /\ contacts = NewDirectory
    /\ files \in [WebPaths -> {Missing, JSONFile(<<Contact(<<"d">>, <<"x">>, <<"1">>)>>)}]
    /\ \A p \in WebPaths \ {defaultDataFile} : files[p] = Missing
    /\ ret = Ret("NewDirectory", Empty, Empty, Empty, "", ErrNil, FALSE, ZeroContact)
    /\ insertedPhone = [k \in {} |-> Empty]
    /\ cli = NoCLI
    /\ web = NoWeb
    /\ entry = ""

\* The response of a handler: http.Redirect to "/" with StatusSeeOther and a
\* message of the given type ("" without a message), or a page or an error.
Respond(path, method, status, type) ==
    web' = [web EXCEPT !.path = path, !.method = method, !.status = status, !.type = type]

\* The type of the message a handler attaches to the error its call returned.
MessageType(err) == IF err # ErrNil THEN "error" ELSE "success"

\* StartServer reading the default data file into the Directory it creates.
StartServerLoading ==
    /\ ~web.started
    /\ web' = [web EXCEPT !.started = TRUE]
    /\ contacts' = IF files[defaultDataFile].valid
                   THEN Rebuild(Unmarshal(files[defaultDataFile].data))
                   ELSE NewDirectory
    /\ insertedPhone' = [k \in DOMAIN contacts' |-> contacts'[k].Phone]
    /\ ret' = Ret("NewDirectory", Empty, Empty, Empty, "", ErrNil, FALSE, ZeroContact)
    /\ UNCHANGED files

\* func StartServer(): dir = annuaire.NewDirectory(), then the routes
StartServer ==
    /\ ~web.started
    /\ web' = [web EXCEPT !.started = TRUE]
    /\ contacts' = NewDirectory
    /\ insertedPhone' = [k \in {} |-> Empty]
    /\ ret' = Ret("NewDirectory", Empty, Empty, Empty, "", ErrNil, FALSE, ZeroContact)
    /\ UNCHANGED files

\* The first lines of the handlers that modify: any method but POST is
\* redirected to "/" with no message and nothing is called.
NotPost(path, method) ==
    /\ method # "POST"
    /\ Respond(path, method, 303, "")
    /\ UNCHANGED <<contacts, files, ret, insertedPhone>>

\* func handleHome(w, r): dir.ListContacts() and dir.ContactCount()
handleHome(method) ==
    /\ web.started
    /\ \E all \in MapToSlices(contacts) :
           ret' = [Ret("ContactCount", Empty, Empty, Empty, "", ErrNil, FALSE, ZeroContact)
                      EXCEPT !.list = all, !.count = ContactCount(contacts)]
    /\ Respond("/", method, 200, "")
    /\ UNCHANGED <<contacts, files, insertedPhone>>

\* handleAdd storing the form values itself, AddContact not called.
handleAddBypassing(method, name, first, phone) ==
    /\ web.started
    /\ \/ NotPost("/add", method)
       \/ /\ method = "POST"
          /\ ContactCount(contacts) < MaxContacts \/ CompositeKey(name, phone) \in DOMAIN contacts
          /\ contacts' = [k \in DOMAIN contacts \ {CompositeKey(name, phone)} |-> contacts[k]]
                             @@ (CompositeKey(name, phone) :> Contact(name, first, phone))
          /\ insertedPhone' = [k \in DOMAIN contacts' |-> contacts'[k].Phone]
          /\ ret' = Ret("AddContact", name, first, phone, "", ErrNil, FALSE, ZeroContact)
          /\ UNCHANGED files
          /\ Respond("/add", method, 303, "success")

\* func handleAdd(w, r)
handleAdd(method, name, first, phone) ==
    /\ web.started
    /\ \/ NotPost("/add", method)
       \/ /\ method = "POST"
          /\ AddContact(name, first, phone)
          /\ Respond("/add", method, 303, MessageType(ret'.err))

\* func handleSearch(w, r): the page with every contact, and with the result
\* of dir.FilterContacts when a term is given
handleSearch(method, searchTerm) ==
    /\ web.started
    /\ IF searchTerm # Empty
       THEN /\ FilterContacts(searchTerm)
            /\ Respond("/search", method, 200,
                       IF Len(ret'.list) > 0 THEN "success" ELSE "error")
       ELSE /\ \E all \in MapToSlices(contacts) :
                   ret' = [Ret("ContactCount", Empty, Empty, Empty, "", ErrNil, FALSE, ZeroContact)
                              EXCEPT !.list = all, !.count = ContactCount(contacts)]
            /\ Respond("/search", method, 200, "")
            /\ UNCHANGED <<contacts, files, insertedPhone>>

\* func handleDelete(w, r)
handleDelete(method, name) ==
    /\ web.started
    /\ \/ NotPost("/delete", method)
       \/ /\ method = "POST"
          /\ DeleteContact(name)
          /\ Respond("/delete", method, 303, MessageType(ret'.err))

\* func handleExport(w, r): dir.ExportToJSON of a file of the temp directory
handleExport(method) ==
    /\ web.started
    /\ \/ NotPost("/export", method)
       \/ \* os.MkdirAll of the temp directory fails
          /\ method = "POST"
          /\ Respond("/export", method, 303, "error")
          /\ UNCHANGED <<contacts, files, ret, insertedPhone>>
       \/ /\ method = "POST"
          /\ ExportToJSON(exportFile)
          /\ Respond("/export", method, 303, MessageType(ret'.err))

\* func handleDownload(w, r): serves the exported file, then removes it
handleDownload(method) ==
    /\ web.started
    /\ IF ~files[exportFile].exists
       THEN /\ Respond("/download/", method, 404, "")
            /\ UNCHANGED files
       ELSE \/ \* os.Open or io.Copy fails
               /\ Respond("/download/", method, 500, "")
               /\ UNCHANGED files
            \/ /\ Respond("/download/", method, 200, "")
               /\ files' = [files EXCEPT ![exportFile] = Missing]
    /\ UNCHANGED <<contacts, ret, insertedPhone>>

\* func handleImport(w, r): the upload is copied to a temporary file, which
\* dir.ImportFromJSON reads and the deferred os.Remove deletes before the
\* handler returns
handleImport(method, upload) ==
    /\ web.started
    /\ \/ NotPost("/import", method)
       \/ \* the form cannot be parsed or has no file, or the temporary file cannot
          \* be created or written: what was created of it is removed
          /\ method = "POST"
          /\ Respond("/import", method, 303, "error")
          /\ UNCHANGED <<contacts, files, ret, insertedPhone>>
       \/ /\ method = "POST"
          /\ LET r(err) == Ret("ImportFromJSON", Empty, Empty, Empty, importFile, err,
                               FALSE, ZeroContact)
             IN  \/ \* os.ReadFile fails
                    /\ ret' = r(ErrIO)
                    /\ UNCHANGED <<contacts, insertedPhone>>
                 \/ /\ ~upload.valid
                    /\ ret' = r(ErrSyntax)
                    /\ UNCHANGED <<contacts, insertedPhone>>
                 \/ /\ upload.valid
                    /\ contacts' = Rebuild(Unmarshal(upload.data))
                    /\ insertedPhone' = [k \in DOMAIN contacts' |-> contacts'[k].Phone]
                    /\ ret' = r(ErrNil)
          /\ Respond("/import", method, 303, MessageType(ret'.err))
          /\ files' = [files EXCEPT ![importFile] = Missing]

\* func handleClear(w, r): dir = annuaire.NewDirectory()
handleClear(method) ==
    /\ web.started
    /\ \/ NotPost("/clear", method)
       \/ /\ method = "POST"
          /\ contacts' = NewDirectory
          /\ insertedPhone' = [k \in {} |-> Empty]
          /\ ret' = Ret("NewDirectory", Empty, Empty, Empty, "", ErrNil, FALSE, ZeroContact)
          /\ Respond("/clear", method, 303, "success")
          /\ UNCHANGED files

HomeRequest == \E m \in WebMethods : handleHome(m)
AddRequest ==
    \E m \in WebMethods, n \in WebNameInputs, f \in WebFirstInputs, p \in WebPhoneInputs :
        handleAdd(m, n, f, p)
SearchRequest == \E m \in WebMethods, t \in WebNameInputs : handleSearch(m, t)
DeleteRequest == \E m \in WebMethods, n \in WebNameInputs : handleDelete(m, n)
ExportRequest == \E m \in WebMethods : handleExport(m)
DownloadRequest == \E m \in WebMethods : handleDownload(m)
ImportRequest == \E m \in WebMethods, u \in Uploads : handleImport(m, u)
ClearRequest == \E m \in WebMethods : handleClear(m)

WebNext ==
    /\ \/ StartServer
       \/ HomeRequest
       \/ AddRequest
       \/ SearchRequest
       \/ DeleteRequest
       \/ ExportRequest
       \/ DownloadRequest
       \/ ImportRequest
       \/ ClearRequest
    /\ UNCHANGED <<cli, entry>>

SpecWeb == WebInit /\ [][WebNext]_vars

----------------------------------------------------------------------------
(* The web server under concurrent requests.  net/http serves each request
   on a goroutine of its own and nothing synchronises the handlers'
   accesses to "dir", so the statements of two AddContact calls interleave:
   web.reqs[i].pc tells which statement goroutine i runs next.  reqs[i].raced
   records that the call of i and a call for the same key each made its
   existence check before the other's insert. *)

\* Form values of the concurrent requests.
RaceNameInputs == {Empty, <<"a">>}
RaceFirstInputs == {<<"x">>, <<"y">>}
RacePhoneInputs == {<<"1">>, <<"2">>}

\* The other goroutine.
Other(i) == CHOOSE j \in Requests : j # i

\* handleAdd of a POST, up to its call of dir.AddContact
handleAddCall(i, name, first, phone) ==
    /\ web.started /\ ~web.crashed
    /\ web.reqs[i].pc \in {"idle", "done"}
    /\ web' = [web EXCEPT !.reqs[i] =
                  [IdleRequest EXCEPT !.pc = "called", !.name = name, !.first = first,
                                      !.phone = phone]]
    /\ UNCHANGED <<contacts, files, ret, insertedPhone>>

\* The answer of handleAdd once AddContact returned err to goroutine i.
RespondAdd(i, err, raced) ==
    web' = [web EXCEPT !.path = "/add", !.method = "POST", !.status = 303,
                       !.type = MessageType(err),
                       !.reqs[i].pc = "done", !.reqs[i].type = MessageType(err),
                       !.reqs[i].raced = raced]

\* AddContact in goroutine i, from its first statement to the existence
\* check "if _, exists := d.contacts[key]; exists"
AddContactCheck(i) ==
    LET q == web.reqs[i]
        o == web.reqs[Other(i)]
        key == CompositeKey(q.name, q.phone)
        r(err) == Ret("AddContact", q.name, q.first, q.phone, "", err, FALSE, ZeroContact)
    IN  /\ ~web.crashed
        /\ q.pc = "called"
        /\ IF q.name = Empty \/ q.first = Empty \/ q.phone = Empty
           THEN ret' = r(ErrRequired) /\ RespondAdd(i, ErrRequired, FALSE)
           ELSE IF key \in DOMAIN contacts
           THEN ret' = r(ErrDuplicate) /\ RespondAdd(i, ErrDuplicate, FALSE)
           ELSE /\ ContactCount(contacts) < MaxContacts
                /\ IF o.pc = "checked" /\ CompositeKey(o.name, o.phone) = key
                   THEN web' = [web EXCEPT !.reqs[i].pc = "checked", !.reqs[i].raced = TRUE,
                                           !.reqs[Other(i)].raced = TRUE]
                   ELSE web' = [web EXCEPT !.reqs[i].pc = "checked"]
                /\ UNCHANGED ret
        /\ UNCHANGED <<contacts, files, insertedPhone>>

\* The insert of AddContact storing under a key that holds the first name too.
AddContactInsertByFirst(i) ==
    LET q == web.reqs[i]
        key == q.name \o <<"_">> \o q.first \o <<"_">> \o q.phone
    IN  /\ ~web.crashed
        /\ q.pc = "checked"
        /\ contacts' = [k \in DOMAIN contacts \ {key} |-> contacts[k]]
                           @@ (key :> Contact(q.name, q.first, q.phone))
        /\ insertedPhone' = [k \in DOMAIN contacts' |-> contacts'[k].Phone]
        /\ ret' = Ret("AddContact", q.name, q.first, q.phone, "", ErrNil, FALSE, ZeroContact)
        /\ RespondAdd(i, ErrNil, q.raced)
        /\ UNCHANGED files

\* AddContact in goroutine i, from "d.contacts[key] = Contact{...}" to its
\* return
AddContactInsert(i) ==
    LET q == web.reqs[i]
        key == CompositeKey(q.name, q.phone)
    IN  /\ ~web.crashed
        /\ q.pc = "checked"
        /\ contacts' = [k \in DOMAIN contacts \ {key} |-> contacts[k]]
                           @@ (key :> Contact(q.name, q.first, q.phone))
        /\ insertedPhone' = [k \in DOMAIN contacts' |-> contacts'[k].Phone]
        /\ ret' = Ret("AddContact", q.name, q.first, q.phone, "", ErrNil, FALSE, ZeroContact)
        /\ RespondAdd(i, ErrNil, q.raced)
        /\ UNCHANGED files

\* A write of the map at the same time as another access of it: the Go
\* runtime may detect it and end the process with "fatal error: concurrent
\* map writes" (or "concurrent map read and map write").
FatalConcurrentMapAccess ==
    /\ ~web.crashed
    /\ \E i \in Requests :
           /\ web.reqs[i].pc = "checked"
           /\ web.reqs[Other(i)].pc \in {"called", "checked"}
    /\ web' = [web EXCEPT !.crashed = TRUE]
    /\ UNCHANGED <<contacts, files, ret, insertedPhone>>

RaceNext ==
    /\ \/ StartServer
       \/ \E i \in Requests, n \in RaceNameInputs, f \in RaceFirstInputs, p \in RacePhoneInputs :
              handleAddCall(i, n, f, p)
       \/ \E i \in Requests : AddContactCheck(i)
       \/ \E i \in Requests : AddContactInsert(i)
       \/ FatalConcurrentMapAccess
    /\ UNCHANGED <<cli, entry>>

SpecWebRace == WebInit /\ [][RaceNext]_vars

----------------------------------------------------------------------------
(* The deprecated French method names of Directory, each a call of the
   English method, and a caller that uses both sets of names. *)

\* func (d *Directory) AjouterContact(nom, prenom, telephone string) error
AjouterContact(nom, prenom, telephone) ==
    /\ AddContact(nom, prenom, telephone)
    /\ entry' = "AjouterContact"

\* func (d *Directory) RechercherContact(nom string) (Contact, bool)
RechercherContact(nom) ==
    /\ SearchContact(nom)
    /\ entry' = "RechercherContact"

\* func (d *Directory) ListerContacts() []Contact
ListerContacts ==
    /\ ListContacts
    /\ entry' = "ListerContacts"

\* SupprimerContact removing every contact of the name, as a directory keyed
\* by name alone does.
SupprimerContactParNom(nom) ==
    /\ DeleteContactNoBreak(nom)
    /\ entry' = "SupprimerContact"

\* func (d *Directory) SupprimerContact(nom string) error
SupprimerContact(nom) ==
    /\ DeleteContact(nom)
    /\ entry' = "SupprimerContact"

\* func (d *Directory) ModifierContact(nom, nouveauPrenom, nouveauTelephone string) error
ModifierContact(nom, nouveauPrenom, nouveauTelephone) ==
    /\ UpdateContact(nom, nouveauPrenom, nouveauTelephone)
    /\ entry' = "ModifierContact"

\* func (d *Directory) NombreContacts() int
NombreContacts ==
    /\ CallContactCount
    /\ entry' = "NombreContacts"

\* func (d *Directory) SaveToJSON(nomFichier string) error
SaveToJSON(nomFichier) ==
    /\ ExportToJSON(nomFichier)
    /\ entry' = "SaveToJSON"

\* Arguments of the caller.
LegacyNameInputs == {Empty, <<"a">>}
LegacyFirstInputs == {Empty, <<"x">>, <<"y">>}
LegacyPhoneInputs == {Empty, <<"1">>, <<"2">>}

LegacyInit ==
    /\ contacts = NewDirectory
    /\ files = [p \in Paths |-> Missing]
    /\ ret = Ret("NewDirectory", Empty, Empty, Empty, "", ErrNil, FALSE, ZeroContact)
    /\ insertedPhone = [k \in {} |-> Empty]
    /\ cli = NoCLI
    /\ web = NoWeb
    /\ entry = ""

\* A call of an English method, entered by its own name.
EnglishCall ==
    /\ \/ \E n \in LegacyNameInputs, f \in LegacyFirstInputs, p \in LegacyPhoneInputs :
              AddContact(n, f, p)
       \/ \E t \in LegacyNameInputs : SearchContact(t)
       \/ ListContacts
       \/ \E n \in LegacyNameInputs : DeleteContact(n)
       \/ \E n \in LegacyNameInputs, f \in LegacyFirstInputs, p \in LegacyPhoneInputs :
              UpdateContact(n, f, p)
       \/ CallContactCount
       \/ \E path \in Paths : ExportToJSON(path)
    /\ entry' = ret'.op

\* A call of a French method.
FrenchCall ==
    \/ \E n \in LegacyNameInputs, f \in LegacyFirstInputs, p \in LegacyPhoneInputs :
           AjouterContact(n, f, p)
    \/ \E t \in LegacyNameInputs : RechercherContact(t)
    \/ ListerContacts
    \/ \E n \in LegacyNameInputs : SupprimerContact(n)
    \/ \E n \in LegacyNameInputs, f \in LegacyFirstInputs, p \in LegacyPhoneInputs :
           ModifierContact(n, f, p)
    \/ NombreContacts
    \/ \E path \in Paths : SaveToJSON(path)

LegacyNext ==
    /\ \/ EnglishCall
       \/ FrenchCall
    /\ UNCHANGED <<cli, web>>

SpecLegacy == LegacyInit /\ [][LegacyNext]_vars

----------------------------------------------------------------------------
(* The earlier variant of the package: type Annuaire, whose map is keyed by
   the last name alone.  The variable contacts holds a.contacts. *)

\* type Contact struct { Nom, Prenom, Telephone string } of that variant
AnnuaireContact(nom, prenom, telephone) ==
    [Nom |-> nom, Prenom |-> prenom, Telephone |-> telephone]

\* NewAnnuaire: make(map[string]Contact)
NewAnnuaire == [k \in {} |-> AnnuaireContact(Empty, Empty, Empty)]

\* The errors of that variant.
ErrRequis == "tous les champs sont requis"
ErrExiste == "un contact avec ce nom et ce téléphone existe déjà"
ErrNonTrouve == "contact non trouvé"

\* Arguments of the callers of that variant.
NomInputs == {Empty, <<"a">>, <<"b">>}
PrenomInputs == {Empty, <<"x">>, <<"y">>}
TelephoneInputs == {Empty, <<"1">>, <<"2">>}

\* The record of the last call of a method of Annuaire.
AnnuaireRet(op, nom, prenom, telephone, err) ==
    [Ret(op, nom, prenom, telephone, "", err, FALSE, ZeroContact)
        EXCEPT !.contact = AnnuaireContact(Empty, Empty, Empty)]

AnnuaireInit ==
    /\ contacts = NewAnnuaire
    /\ files = [p \in Paths |-> Missing]
    /\ ret = AnnuaireRet("NewAnnuaire", Empty, Empty, Empty, ErrNil)
    /\ insertedPhone = [k \in {} |-> Empty]
    /\ cli = NoCLI
    /\ web = NoWeb
    /\ entry = ""

\* func (a *Annuaire) AjouterContact(nom, prenom, telephone string) error
AnnuaireAjouterContact(nom, prenom, telephone) ==
    LET r(err) == AnnuaireRet("Annuaire.AjouterContact", nom, prenom, telephone, err)
    IN  IF nom = Empty \/ prenom = Empty \/ telephone = Empty
        THEN ret' = r(ErrRequis) /\ UNCHANGED contacts
        ELSE IF \E k \in DOMAIN contacts :
                    contacts[k].Nom = nom /\ contacts[k].Telephone = telephone
        THEN ret' = r(ErrExiste) /\ UNCHANGED contacts
        ELSE /\ contacts' = [k \in DOMAIN contacts \ {nom} |-> contacts[k]]
                                @@ (nom :> AnnuaireContact(nom, prenom, telephone))
             /\ ret' = r(ErrNil)

\* func (a *Annuaire) RechercherContact(nom string) (Contact, bool)
AnnuaireRechercherContact(nom) ==
    /\ ret' = [AnnuaireRet("Annuaire.RechercherContact", nom, Empty, Empty, ErrNil)
                  EXCEPT !.found = nom \in DOMAIN contacts,
                         !.contact = IF nom \in DOMAIN contacts THEN contacts[nom] ELSE @]
    /\ UNCHANGED contacts

\* func (a *Annuaire) SupprimerContact(nom string) error
AnnuaireSupprimerContact(nom) ==
    LET r(err) == AnnuaireRet("Annuaire.SupprimerContact", nom, Empty, Empty, err)
    IN  IF nom \notin DOMAIN contacts
        THEN ret' = r(ErrNonTrouve) /\ UNCHANGED contacts
        ELSE /\ contacts' = [k \in DOMAIN contacts \ {nom} |-> contacts[k]]
             /\ ret' = r(ErrNil)

\* func (a *Annuaire) ModifierContact(nom, nouveauPrenom, nouveauTelephone string) error
AnnuaireModifierContact(nom, nouveauPrenom, nouveauTelephone) ==
    LET r(err) == AnnuaireRet("Annuaire.ModifierContact", nom, nouveauPrenom,
                              nouveauTelephone, err)
    IN  IF nom \notin DOMAIN contacts
        THEN ret' = r(ErrNonTrouve) /\ UNCHANGED contacts
        ELSE /\ contacts' = [contacts EXCEPT ![nom] =
                    AnnuaireContact(contacts[nom].Nom,
                        IF nouveauPrenom # Empty THEN nouveauPrenom ELSE contacts[nom].Prenom,
                        IF nouveauTelephone # Empty THEN nouveauTelephone
                        ELSE contacts[nom].Telephone)]
             /\ ret' = r(ErrNil)

\* func (a *Annuaire) NombreContacts() int, called
AnnuaireNombreContacts ==
    /\ ret' = [AnnuaireRet("Annuaire.NombreContacts", Empty, Empty, Empty, ErrNil)
                  EXCEPT !.count = Cardinality(DOMAIN contacts)]
    /\ UNCHANGED contacts

AnnuaireNext ==
    /\ \/ \E n \in NomInputs, p \in PrenomInputs, t \in TelephoneInputs :
              AnnuaireAjouterContact(n, p, t)
       \/ \E n \in NomInputs : AnnuaireRechercherContact(n)
       \/ \E n \in NomInputs : AnnuaireSupprimerContact(n)
       \/ \E n \in NomInputs, p \in PrenomInputs, t \in TelephoneInputs :
              AnnuaireModifierContact(n, p, t)
       \/ AnnuaireNombreContacts
    /\ UNCHANGED <<files, insertedPhone, cli, web, entry>>

SpecAnnuaire == AnnuaireInit /\ [][AnnuaireNext]_vars

----------------------------------------------------------------------------
(* Vocabulary of the properties *)

\* Some contact stored in m has this last name.
HasName(m, name) == \E k \in DOMAIN m : m[k].Name = name

\* Some contact stored in m has this last name and this phone.
HasNamePhone(m, name, phone) ==
    \E k \in DOMAIN m : m[k].Name = name /\ m[k].Phone = phone

\* Name, First or Phone of the contact is exactly the term.
HasField(c, term) == c.Name = term \/ c.First = term \/ c.Phone = term

\* All three arguments of the last call are non-empty.
AllGiven(r) == r.name # Empty /\ r.first # Empty /\ r.phone # Empty

----------------------------------------------------------------------------
(* Properties *)

\* C1: in every reachable state no two stored contacts have both the same
\* Name and the same Phone.
C1_UniqueNamePhone ==
    \A k1, k2 \in DOMAIN contacts :
        (contacts[k1].Name = contacts[k2].Name /\ contacts[k1].Phone = contacts[k2].Phone)
            => k1 = k2

\* C2: on a Directory built by AddContact calls only, an AddContact with
\* non-empty arguments succeeds and raises ContactCount by exactly 1 when that
\* name and phone were not added before (in particular for a known name with
\* a different phone), and fails with the duplicate error when they were.
C2_AddOncePerNamePhone ==
    [][ (ret'.op = "AddContact" /\ AllGiven(ret')) =>
            IF HasNamePhone(contacts, ret'.name, ret'.phone)
            THEN ret'.err = ErrDuplicate /\ ContactCount(contacts') = ContactCount(contacts)
            ELSE ret'.err = ErrNil /\ ContactCount(contacts') = ContactCount(contacts) + 1
      ]_vars

\* C3: in every reachable state AddContact with non-empty arguments fails
\* with the duplicate error if and only if some stored contact has that Name
\* and that Phone; when it fails the store is not changed, otherwise the
\* contact is inserted.
C3_DuplicateIffNamePhoneStored ==
    [][ (ret'.op = "AddContact" /\ AllGiven(ret')) =>
            /\ (ret'.err = ErrDuplicate) <=> HasNamePhone(contacts, ret'.name, ret'.phone)
            /\ ret'.err = ErrDuplicate => contacts' = contacts
            /\ ret'.err # ErrDuplicate =>
                   /\ ret'.err = ErrNil
                   /\ Contact(ret'.name, ret'.first, ret'.phone) \in Stored(contacts')
                   /\ ContactCount(contacts') = ContactCount(contacts) + 1
                   /\ \A k \in DOMAIN contacts : k \in DOMAIN contacts' /\ contacts'[k] = contacts[k]
      ]_vars

\* C4: after a successful ExportToJSON of a Directory built by AddContact,
\* UpdateContact and DeleteContact calls, ImportFromJSON of the file written
\* into a fresh Directory yields the same collection of Contact values and the
\* same ContactCount.
C4_RoundTrip ==
    (ret.op = "ExportToJSON" /\ ret.err = ErrNil) =>
        LET fresh == Rebuild(Unmarshal(files[ret.file].data))
        IN  /\ files[ret.file].exists /\ files[ret.file].valid
            /\ ContactBag(fresh) = ContactBag(contacts)
            /\ ContactCount(fresh) = ContactCount(contacts)

\* C5: UpdateContact on a name some stored contact has returns no error and
\* changes exactly one contact with that Name: First and Phone take the new
\* values that are non-empty, Name is kept, every other contact is untouched.
C5_UpdateOneContact ==
    [][ (ret'.op = "UpdateContact" /\ HasName(contacts, ret'.name)) =>
            /\ ret'.err = ErrNil
            /\ \E key \in DOMAIN contacts :
                   /\ contacts[key].Name = ret'.name
                   /\ DOMAIN contacts' = DOMAIN contacts
                   /\ contacts'[key].Name = contacts[key].Name
                   /\ contacts'[key].First =
                          (IF ret'.first # Empty THEN ret'.first ELSE contacts[key].First)
                   /\ contacts'[key].Phone =
                          (IF ret'.phone # Empty THEN ret'.phone ELSE contacts[key].Phone)
                   /\ \A k \in DOMAIN contacts \ {key} : contacts'[k] = contacts[k]
            /\ (ret'.first = Empty /\ ret'.phone = Empty) => contacts' = contacts
      ]_vars

C5_Witness ==
    /\ ret.op = "UpdateContact" /\ ret.err = ErrNil
    /\ ret.first = Empty /\ ret.phone # Empty
    /\ \E k1, k2 \in DOMAIN contacts :
           /\ k1 # k2
           /\ contacts[k1].Name = ret.name /\ contacts[k2].Name = ret.name
           /\ contacts[k1].Phone = ret.phone /\ contacts[k2].Phone # ret.phone

\* C6: UpdateContact never re-keys: the set of keys and ContactCount are the
\* same before and after the call, and every contact, the updated one
\* included, stays under the composite key of its Name and of the Phone it
\* was inserted with.
C6_UpdateNeverRekeys ==
    [][ ret'.op = "UpdateContact" =>
            /\ DOMAIN contacts' = DOMAIN contacts
            /\ ContactCount(contacts') = ContactCount(contacts)
            /\ insertedPhone' = insertedPhone
            /\ \A k \in DOMAIN contacts' :
                   k = CompositeKey(contacts'[k].Name, insertedPhone'[k])
      ]_vars

C6_Witness ==
    /\ ret.op = "UpdateContact" /\ ret.err = ErrNil
    /\ \E k \in DOMAIN contacts :
           /\ contacts[k].Name = ret.name
           /\ contacts[k].Phone = ret.phone
           /\ insertedPhone[k] # contacts[k].Phone
           /\ k # CompositeKey(contacts[k].Name, contacts[k].Phone)

\* C7: DeleteContact on a name some stored contact has returns no error,
\* lowers ContactCount by exactly 1 and removes exactly one contact with that
\* Name; every other contact stays stored unchanged.
C7_DeleteOneContact ==
    [][ (ret'.op = "DeleteContact" /\ HasName(contacts, ret'.name)) =>
            /\ ret'.err = ErrNil
            /\ ContactCount(contacts') = ContactCount(contacts) - 1
            /\ \E key \in DOMAIN contacts :
                   /\ contacts[key].Name = ret'.name
                   /\ DOMAIN contacts' = DOMAIN contacts \ {key}
                   /\ \A k \in DOMAIN contacts' : contacts'[k] = contacts[k]
      ]_vars

C7_Witness ==
    /\ ret.op = "DeleteContact" /\ ret.err = ErrNil
    /\ HasName(contacts, ret.name)

\* C8: DeleteContact and UpdateContact on a name no stored contact has fail
\* with the not-found error and leave the store as it was.
C8_LookupMiss ==
    [][ (ret'.op \in {"DeleteContact", "UpdateContact"} /\ ~HasName(contacts, ret'.name)) =>
            /\ ret'.err = ErrNotFound
            /\ contacts' = contacts
      ]_vars

C8_Witness ==
    /\ ret.op \in {"DeleteContact", "UpdateContact"}
    /\ ret.err = ErrNotFound
    /\ contacts # NewDirectory
    /\ ~HasName(contacts, ret.name)

\* C9: AddContact with an empty name, first name or phone fails with the
\* required-fields error, also when the composite key of its arguments is
\* taken, and leaves the store as it was.
C9_EmptyFieldRejected ==
    [][ (ret'.op = "AddContact" /\ ~AllGiven(ret')) =>
            /\ ret'.err = ErrRequired
            /\ contacts' = contacts
      ]_vars

C9_Witness ==
    /\ ret.op = "AddContact" /\ ret.err = ErrRequired
    /\ CompositeKey(ret.name, ret.phone) \in DOMAIN contacts

\* C10: SearchContact reports found exactly when some stored contact has
\* Name, First or Phone equal to the term; the contact returned is then a
\* stored contact with such a field, and otherwise the zero-value Contact.
C10_SearchFindsAMatch ==
    ret.op = "SearchContact" =>
        /\ ret.found <=> \E k \in DOMAIN contacts : HasField(contacts[k], ret.name)
        /\ ret.found => (ret.contact \in Stored(contacts) /\ HasField(ret.contact, ret.name))
        /\ ~ret.found => ret.contact = ZeroContact

C10_Witness ==
    /\ ret.op = "SearchContact" /\ ret.found
    /\ ret.contact.First = ret.name
    /\ \E k \in DOMAIN contacts :
           /\ contacts[k] # ret.contact
           /\ contacts[k].Name = ret.contact.Name
           /\ ~HasField(contacts[k], ret.name)

\* The collection of the elements of a slice, with multiplicity.
SliceBag(seq) ==
    [c \in {seq[i] : i \in 1..Len(seq)} |-> Cardinality({i \in 1..Len(seq) : seq[i] = c})]

\* The stored contacts that have the term as Name, First or Phone.
WithField(m, term) ==
    LET hits == {k \in DOMAIN m : HasField(m[k], term)}
    IN  [k \in hits |-> m[k]]

\* C11: FilterContacts returns every stored contact whose Name, First or
\* Phone equals the term exactly once and nothing else; a SearchContact of the
\* same term on the same store reports found exactly when that result is
\* non-empty, and the contact it returns is an element of that result.
C11_FilterReturnsEveryMatch ==
    [][ /\ ret'.op = "FilterContacts" =>
               SliceBag(ret'.list) = ContactBag(WithField(contacts, ret'.name))
        /\ (ret.op = "FilterContacts" /\ ret'.op = "SearchContact" /\ ret'.name = ret.name) =>
               /\ ret'.found <=> Len(ret.list) > 0
               /\ ret'.found => \E i \in 1..Len(ret.list) : ret.list[i] = ret'.contact
      ]_vars

C11_Witness ==
    /\ ret.op = "FilterContacts"
    /\ Len(ret.list) = 2
    /\ ret.list[1] # ret.list[2]

\* C12 as claimed: when no stored contact matches the term FilterContacts
\* returns an empty sequence that is not the nil slice.
C12_FilterNeverNil ==
    (ret.op = "FilterContacts" /\ DOMAIN WithField(contacts, ret.name) = {}) =>
        /\ Len(ret.list) = 0
        /\ ~ret.isNil

\* C12 as amended: when no stored contact matches the term FilterContacts
\* returns a sequence of length 0, and it is the nil slice.
C12_FilterEmptyIsNil ==
    (ret.op = "FilterContacts" /\ DOMAIN WithField(contacts, ret.name) = {}) =>
        /\ Len(ret.list) = 0
        /\ ret.isNil

C12_Witness ==
    /\ ret.op = "FilterContacts"
    /\ contacts # NewDirectory
    /\ DOMAIN WithField(contacts, ret.name) = {}
    /\ ret.isNil

\* The elements of a slice.
Elements(seq) == {seq[i] : i \in 1..Len(seq)}

\* The composite key the import gives an entry of a file.
EntryKey(e) == CompositeKey(e.Name, e.Phone)

\* C13 as claimed: after a successful ImportFromJSON no contact stored before
\* remains unless the file contains it, every stored contact is an entry of
\* the file, and every entry of the file is stored under the composite key of
\* its own Name and Phone.
C13_ImportStoresEveryEntry ==
    [][ (ret'.op = "ImportFromJSON" /\ ret'.err = ErrNil) =>
            LET arr == Unmarshal(files[ret'.file].data)
            IN  /\ \A c \in Stored(contacts) : c \in Stored(contacts') => c \in Elements(arr)
                /\ Stored(contacts') \subseteq Elements(arr)
                /\ \A i \in 1..Len(arr) :
                       /\ EntryKey(arr[i]) \in DOMAIN contacts'
                       /\ contacts'[EntryKey(arr[i])] = arr[i]
      ]_vars

\* C13 as amended: after a successful ImportFromJSON no contact stored before
\* remains unless the file contains it, every stored contact is an entry of
\* the file and sits under the composite key of its own Name and Phone, and
\* every entry whose composite key no later entry has is stored.
C13_ImportReplacesStore ==
    [][ (ret'.op = "ImportFromJSON" /\ ret'.err = ErrNil) =>
            LET arr == Unmarshal(files[ret'.file].data)
            IN  /\ \A c \in Stored(contacts) : c \in Stored(contacts') => c \in Elements(arr)
                /\ Stored(contacts') \subseteq Elements(arr)
                /\ \A k \in DOMAIN contacts' : k = EntryKey(contacts'[k])
                /\ \A i \in 1..Len(arr) :
                       (\A j \in (i + 1)..Len(arr) : EntryKey(arr[j]) # EntryKey(arr[i])) =>
                           /\ EntryKey(arr[i]) \in DOMAIN contacts'
                           /\ contacts'[EntryKey(arr[i])] = arr[i]
      ]_vars

C13_Witness ==
    /\ ret.op = "ImportFromJSON" /\ ret.err = ErrNil
    /\ Len(files[ret.file].data) = 2
    /\ ContactCount(contacts) = 1

\* C14: ImportFromJSON of a path that does not exist fails with the
\* file-not-found error, which malformed JSON never gives; LoadFromJSON of a
\* path that does not exist returns no error and leaves the store unchanged,
\* and of a path that exists does what ImportFromJSON does.
C14_MissingImportFile ==
    [][ /\ (ret'.op = "ImportFromJSON" /\ ~files[ret'.file].exists) =>
               /\ ret'.err = ErrFileNotFound
               /\ contacts' = contacts
        /\ (ret'.op = "ImportFromJSON" /\ files[ret'.file].exists /\ ~files[ret'.file].valid) =>
               /\ ret'.err \in {ErrSyntax, ErrIO}
               /\ ret'.err # ErrFileNotFound
        /\ (ret'.op = "LoadFromJSON" /\ ~files[ret'.file].exists) =>
               /\ ret'.err = ErrNil
               /\ contacts' = contacts
        /\ (ret'.op = "LoadFromJSON" /\ files[ret'.file].exists) =>
               \/ /\ files[ret'.file].valid
                  /\ ret'.err = ErrNil
                  /\ contacts' = Rebuild(Unmarshal(files[ret'.file].data))
               \/ /\ ~files[ret'.file].valid
                  /\ ret'.err = ErrSyntax
                  /\ contacts' = contacts
               \/ /\ ret'.err = ErrIO
                  /\ contacts' = contacts
      ]_vars

C14_Witness ==
    /\ ret.op = "LoadFromJSON" /\ ret.err = ErrNil
    /\ ~files[ret.file].exists
    /\ contacts # NewDirectory

\* C15: an ImportFromJSON that returns an error leaves the store as it was.
C15_FailedImportKeepsStore ==
    [][ (ret'.op = "ImportFromJSON" /\ ret'.err # ErrNil) => contacts' = contacts ]_vars

C15_Witness ==
    /\ ret.op = "ImportFromJSON" /\ ret.err = ErrSyntax
    /\ contacts # NewDirectory

\* C16: ContactCount returns the number of stored contacts, and ListContacts
\* returns every stored contact exactly once and nothing else, so its length
\* is that number and it is empty exactly when the store is.
C16_CountAndListReflectStore ==
    /\ ret.op = "ContactCount" => ret.count = Cardinality(DOMAIN contacts)
    /\ ret.op = "ListContacts" =>
           /\ SliceBag(ret.list) = ContactBag(contacts)
           /\ Len(ret.list) = Cardinality(DOMAIN contacts)
           /\ (Len(ret.list) = 0) <=> (DOMAIN contacts = {})

C16_Witness ==
    /\ ret.op = "ListContacts"
    /\ Len(ret.list) = 2
    /\ ret.list[1] = ret.list[2]

\* C17: every stored contact has a non-empty Name, First and Phone.
C17_FieldsNonEmpty ==
    \A k \in DOMAIN contacts :
        /\ contacts[k].Name # Empty
        /\ contacts[k].First # Empty
        /\ contacts[k].Phone # Empty

\* C18: after a successful ExportToJSON the file holds exactly the stored
\* contacts, one array element each, whatever it held before; if it does not,
\* the call returned an error.
C18_ExportOverwrites ==
    [][ ret'.op = "ExportToJSON" =>
            /\ ret'.err = ErrNil =>
                   /\ files'[ret'.file].exists /\ files'[ret'.file].valid
                   /\ SliceBag(files'[ret'.file].data) = ContactBag(contacts)
            /\ files'[ret'.file] # files[ret'.file] /\ ~files'[ret'.file].valid =>
                   ret'.err # ErrNil
      ]_vars

\* A flag the action of the invocation requires was not given.
MissingFlag(c) ==
    \/ c.action = "add" /\ (c.name = Empty \/ c.first = Empty \/ c.phone = Empty)
    \/ c.action \in {"search", "delete", "update"} /\ c.name = Empty
    \/ c.action \in {"export", "import"} /\ c.file = ""

\* The Directory operation of the action was called and returned an error.
ActionFailed(c) == c.opErr \notin {"", ErrNil}

\* C19: a command-line invocation whose add, delete, update or import
\* succeeded ends with the default data file holding exactly the contacts in
\* memory; list and search change no file, and export changes no file but the
\* one its file flag names.
C19_CLIPersists ==
    [][ /\ (cli'.pc = "done" /\ cli'.action \in {"add", "delete", "update", "import"}
               /\ cli'.opErr = ErrNil) =>
               /\ files'[defaultDataFile].exists /\ files'[defaultDataFile].valid
               /\ SliceBag(files'[defaultDataFile].data) = ContactBag(contacts')
        /\ cli'.action \in {"list", "search"} => files' = files
        /\ cli'.action = "export" =>
               \A p \in CLIPaths \ {cli'.file} : files'[p] = files[p]
      ]_vars

C22_HandlersValidate ==
    [][ /\ (web'.path = "/add" /\ web'.method = "POST") =>
               LET key == CompositeKey(ret'.name, ret'.phone)
               IN  /\ ret'.op = "AddContact"
                   /\ web'.status = 303
                   /\ IF ~AllGiven(ret') \/ key \in DOMAIN contacts
                      THEN /\ ret'.err = (IF ~AllGiven(ret') THEN ErrRequired ELSE ErrDuplicate)
                           /\ contacts' = contacts
                           /\ web'.type = "error"
                      ELSE /\ ret'.err = ErrNil
                           /\ contacts' =
                                  contacts @@ (key :> Contact(ret'.name, ret'.first, ret'.phone))
                           /\ web'.type = "success"
        /\ (web'.path = "/delete" /\ web'.method = "POST") =>
               /\ ret'.op = "DeleteContact"
               /\ web'.status = 303
               /\ IF HasName(contacts, ret'.name)
                  THEN /\ ret'.err = ErrNil
                       /\ \E key \in DOMAIN contacts :
                              /\ contacts[key].Name = ret'.name
                              /\ contacts' = [k \in DOMAIN contacts \ {key} |-> contacts[k]]
                       /\ web'.type = "success"
                  ELSE /\ ret'.err = ErrNotFound
                       /\ contacts' = contacts
                       /\ web'.type = "error"
      ]_vars

C22_Witness ==
    /\ web.path = "/add" /\ web.method = "POST"
    /\ web.status = 303 /\ web.type = "error"
    /\ ret.err = ErrDuplicate
    /\ ContactCount(contacts) = 1

\* The call of the English method with the arguments the record r holds.
EnglishTwin(r) ==
    CASE r.op = "AddContact" -> AddContact(r.name, r.first, r.phone)
      [] r.op = "SearchContact" -> SearchContact(r.name)
      [] r.op = "ListContacts" -> ListContacts
      [] r.op = "DeleteContact" -> DeleteContact(r.name)
      [] r.op = "UpdateContact" -> UpdateContact(r.name, r.first, r.phone)
      [] r.op = "ContactCount" -> CallContactCount
      [] r.op = "ExportToJSON" -> ExportToJSON(r.file)
      [] OTHER -> FALSE

\* The call of the French method with the arguments the record r holds.
FrenchTwin(r) ==
    CASE r.op = "AddContact" -> AjouterContact(r.name, r.first, r.phone)
      [] r.op = "SearchContact" -> RechercherContact(r.name)
      [] r.op = "ListContacts" -> ListerContacts
      [] r.op = "DeleteContact" -> SupprimerContact(r.name)
      [] r.op = "UpdateContact" -> ModifierContact(r.name, r.first, r.phone)
      [] r.op = "ContactCount" -> NombreContacts
      [] r.op = "ExportToJSON" -> SaveToJSON(r.file)
      [] OTHER -> FALSE

FrenchNames ==
    {"AjouterContact", "RechercherContact", "ListerContacts", "SupprimerContact",
     "ModifierContact", "NombreContacts", "SaveToJSON"}

\* C23: whatever a French method returns and does to the store and to the
\* files from a state, its English twin called with the same arguments can
\* return and do from that state, and the other way round.
C23_LegacyWrappersAgree ==
    [][ \E c \in {contacts'}, f \in {files'}, r \in {ret'} :
            /\ entry' \in FrenchNames =>
                   ENABLED (EnglishTwin(r) /\ contacts' = c /\ files' = f /\ ret' = r)
            /\ entry' \notin FrenchNames =>
                   ENABLED (FrenchTwin(r) /\ contacts' = c /\ files' = f /\ ret' = r)
      ]_vars

C23_Witness ==
    /\ entry = "SupprimerContact"
    /\ ret.err = ErrNil
    /\ HasName(contacts, ret.name)

\* The stored contacts with this name and this phone.
WithNamePhone(m, name, phone) ==
    {k \in DOMAIN m : m[k].Name = name /\ m[k].Phone = phone}

\* C24: when two add requests for the same name and phone have both been
\* answered with success, each made its existence check before the other's
\* insert (so no order of the two calls one after the other gives it), and the
\* store holds a single contact of that name and phone.
C24_ConcurrentAddsLoseOne ==
    \A i \in Requests :
        LET q == web.reqs[i]
            o == web.reqs[Other(i)]
        IN  (/\ q.pc = "done" /\ q.type = "success"
             /\ o.pc = "done" /\ o.type = "success"
             /\ q.name = o.name /\ q.phone = o.phone) =>
                /\ q.raced /\ o.raced
                /\ Cardinality(WithNamePhone(contacts, q.name, q.phone)) = 1

C24_Witness ==
    /\ web.reqs[1].pc = "done" /\ web.reqs[1].type = "success"
    /\ web.reqs[2].pc = "done" /\ web.reqs[2].type = "success"
    /\ web.reqs[1].name = web.reqs[2].name /\ web.reqs[1].phone = web.reqs[2].phone
    /\ web.reqs[1].first # web.reqs[2].first
    /\ ContactCount(contacts) = 1

\* C25: over invocations that met no failure of a file operation, the
\* collection an invocation holds after its startup load is the collection
\* that was in memory at the last save of an add, delete, update or import
\* invocation that succeeded.
C25_SessionContinuity ==
    (cli.pc = "dispatch" /\ ~cli.ioFailed) =>
        \A kept \in cli.kept : ContactBag(contacts) = kept

\* C26: after the startup load of an invocation, a warning has been printed
\* only if the load failed on a file that exists; when the default data file
\* does not exist no warning is printed and the directory is empty.
C26_NoWarningForMissingFile ==
    cli.pc = "dispatch" =>
        /\ cli.warned => (files[defaultDataFile].exists /\ ret.err # ErrNil)
        /\ ~files[defaultDataFile].exists => (~cli.warned /\ contacts = NewDirectory)

\* C27: after a successful ImportFromJSON each composite key of the file
\* holds the last entry of the file that has this key, and ContactCount is the
\* number of distinct composite keys of the file, not the number of entries.
C27_ImportLastEntryWins ==
    [][ (ret'.op = "ImportFromJSON" /\ ret'.err = ErrNil) =>
            LET arr == Unmarshal(files[ret'.file].data)
                keys == {EntryKey(arr[i]) : i \in 1..Len(arr)}
                last(k) == CHOOSE i \in 1..Len(arr) :
                               /\ EntryKey(arr[i]) = k
                               /\ \A j \in (i + 1)..Len(arr) : EntryKey(arr[j]) # k
            IN  /\ DOMAIN contacts' = keys
                /\ \A k \in keys : contacts'[k] = arr[last(k)]
                /\ ContactCount(contacts') = Cardinality(keys)
      ]_vars

C27_Witness ==
    /\ ret.op = "ImportFromJSON" /\ ret.err = ErrNil
    /\ Len(files[ret.file].data) = 2
    /\ EntryKey(files[ret.file].data[1]) = EntryKey(files[ret.file].data[2])
    /\ files[ret.file].data[1] # files[ret.file].data[2]
    /\ Stored(contacts) = {CoerceContact(files[ret.file].data[2])}

\* C28: the default data file is written only by the save of an add, delete,
\* update or import whose Directory call returned no error, or by an export to
\* that very path; so an invocation that ends on a missing flag, on an error of
\* AddContact, DeleteContact, UpdateContact or ImportFromJSON leaves the file,
\* and with it the persisted contacts, as they were.
C28_FailedActionWritesNothing ==
    [][ /\ files'[defaultDataFile] # files[defaultDataFile] =>
               \/ /\ cli.pc = "save"
                  /\ cli.action \in {"add", "delete", "update", "import"}
                  /\ cli.opErr = ErrNil
               \/ /\ cli.pc = "dispatch"
                  /\ cli.action = "export" /\ cli.file = defaultDataFile
        /\ (/\ cli'.pc = "done" /\ cli.pc # "done"
            /\ \/ MissingFlag(cli')
               \/ cli'.action \in {"add", "delete", "update", "import"} /\ ActionFailed(cli')) =>
               /\ cli'.exit = 1
               /\ files' = files
      ]_vars

C28_Witness ==
    /\ cli.pc = "done" /\ cli.action = "import"
    /\ cli.opErr = ErrSyntax
    /\ files[defaultDataFile].valid /\ Len(files[defaultDataFile].data) > 0

\* C29: SearchContact, FilterContacts, ListContacts, ContactCount and
\* ExportToJSON leave the Directory as it was, keys and contacts, whether the
\* call succeeds or fails.
C29_ReadOnlyMethods ==
    [][ ret'.op \in {"SearchContact", "FilterContacts", "ListContacts", "ContactCount",
                     "ExportToJSON"} =>
            /\ DOMAIN contacts' = DOMAIN contacts
            /\ \A k \in DOMAIN contacts : contacts'[k] = contacts[k]
      ]_vars

C29_Witness ==
    /\ ret.op = "ExportToJSON" /\ ret.err = ErrIO
    /\ files[ret.file] = Malformed
    /\ ContactCount(contacts) = 2

\* C30: in the variant keyed by last name, every AjouterContact that returns
\* no error raises NombreContacts by exactly 1 and leaves every contact stored
\* before in place, so that a contact added under a stored name with another
\* phone is kept beside the first.
C30_AnnuaireAddKeepsAll ==
    [][ (ret'.op = "Annuaire.AjouterContact" /\ ret'.err = ErrNil) =>
            /\ Cardinality(DOMAIN contacts') = Cardinality(DOMAIN contacts) + 1
            /\ \A c \in Stored(contacts) : c \in Stored(contacts')
            /\ AnnuaireContact(ret'.name, ret'.first, ret'.phone) \in Stored(contacts')
      ]_vars

====
